---- MODULE Spec2Model ----
(***************************************************************************)
(* Governance proposals of the NEXUS backend                                *)
(* (nexus-backend/src/routes/auth.js, "DAO GOVERNANCE" and "COMMUNITY       *)
(* MANAGEMENT" routes).                                                     *)
(*                                                                          *)
(* The store (Prisma) is modelled as shared variables.  Every `await` on a  *)
(* store call is one atomic step of the store; the handlers use no          *)
(* $transaction, so steps of different requests interleave freely.  The     *)
(* synchronous JavaScript that follows a store call is folded into that     *)
(* step, except where it reads the clock (`new Date()`): there it is a      *)
(* step of its own, because the clock may have advanced since the store     *)
(* answered.                                                                *)
(*                                                                          *)
(* Scope: one community of type FREE, requests that name it in their path,  *)
(* proposals created without gasRequired.  No Prisma schema is part of the  *)
(* sources: proposalVote.create is a plain insert (the handler's only guard *)
(* against a second vote is its earlier read), while communityMember rows   *)
(* are unique per (userId, communityId), the key the handlers look them up  *)
(* by.                                                                      *)
(*                                                                          *)
(* Time is in milliseconds and advances in whole hours.  Percentages are    *)
(* compared by cross-multiplication (x / y * 100 >= q  <=>  x*100 >= q*y),  *)
(* which agrees with the floating-point code for every tally within the     *)
(* bounds used here.                                                        *)
(*                                                                          *)
(* The anchor and mint routes of nexus-backend/src/routes/posts.js and the  *)
(* NexusCore contract are modelled on variables of their own, each with its *)
(* own specification (SpecPosts, SpecCore); the governance actions leave    *)
(* those variables unchanged and the other way round.                       *)
(***************************************************************************)
EXTENDS Integers, Sequences, FiniteSets, TLC

\* ------------------------------------------------------------ bounds ----
NReq == 2            \* requests served in one behaviour, all possibly in flight at once
NJoiners == 2        \* users besides the community's creator
MaxProposals == 1    \* proposals ever created
MaxTime == 2         \* hours the clock may advance
NOpen == 2           \* proposals open together when several are voted on
NPostReq == 3        \* requests to the posts routes in one behaviour
NPosts == 2          \* posts, all written by the same author
MaxMonth == 1        \* months the calendar may advance
FreeAnchorsPerMonthEnv == 1   \* process.env.FREE_ANCHORS_PER_MONTH
NAddresses == 2      \* accounts calling the contract
MaxCorePosts == 2    \* createPost calls that succeed
MaxTx == 5           \* transactions sent to the contract
NWallets == 2        \* wallet addresses, each sent in two spellings
MaxOpsPerHourArg == 2   \* the argument rateLimitBlockchainOps is built with
MaxOpsTicks == 4     \* half hours the limiter's clock may advance
MaxNonces == 2       \* nonces issued in one behaviour
NVerify == 2         \* /wallet/verify requests, all possibly in flight at once
MaxNonceTicks == 4   \* steps of 2.5 minutes the nonce routes' clock may advance

\* --------------------------------------------------------- constants ----
HourMs == 3600000
MinVotingDuration == 1
MaxVotingDuration == 168
MinPercent == 1
MaxPercent == 100
DefaultQuorum == 50
DefaultThreshold == 50

Owner == 0
Users == 0..NJoiners
Reqs == 1..NReq
ProposalIds == 1..MaxProposals

\* inputs offered to createProposal (hours / percent); Omitted stands for a
\* request body without the field
Omitted == -1
DurationInputs == {0, 1, 169}
QuorumInputs == {Omitted, 25, 101}
ThresholdInputs == {Omitted, 60}
\* body.vote as sent; isBoolean() accepts the first two
VoteInputs == {"true", "false", "abstain"}

AdminPermissions == {"MANAGE_COMMUNITY", "MANAGE_MEMBERS", "CREATE_PROPOSALS", "MANAGE_ROLES"}
MemberPermissions == {"POST", "COMMENT", "VOTE"}

VARIABLES
  now,          \* the server clock, ms
  memberCount,  \* community.memberCount
  members,      \* communityMember rows (userId), unique per user
  memberRoles,  \* communityMemberRole rows: <<userId, role name>>
  proposals,    \* proposal rows, in creation order; id = index
  votes,        \* proposalVote rows, in creation order
  req           \* per request slot: the handler's locals and position

\* posts and their anchoring and minting (routes/posts.js)
VARIABLES
  month,        \* the server clock's calendar month, counted from the start
  users,        \* user rows: freeAnchorsUsed, lastAnchorReset
  posts,        \* post rows: authorId, isAnchored, isMinted, status
  postAnchors,  \* postAnchor rows, counted per user and month of creation
  preq          \* per request slot of the posts routes: locals and position

\* the NexusCore contract (contracts/NexusCore.sol)
VARIABLES
  postIds,      \* _postIds
  corePosts,    \* the posts mapping: author, isNFT, tokenId (author 0 = unset)
  tokenOwner,   \* ERC721 owner of each token id, 0 = not minted
  tx            \* the last transaction: function, sender, argument, outcome

\* the blockchain-operation rate limiter (middleware/web3Auth.js)
VARIABLES
  opsNow,       \* Date.now() as the limiter reads it, ms
  userOps,      \* the closure's Map: wallet address -> admission times kept
  admitted,     \* per wallet address, the times of every call passed on to next()
  lastOp        \* the last request the middleware handled and what it did

\* wallet nonces (routes/auth.js, /wallet/nonce and /wallet/verify)
VARIABLES
  nonceNow,     \* Date.now() as the wallet routes read it, ms
  nonceStore,   \* the Map: wallet address -> nonce, expires
  timers,       \* pending setTimeout callbacks: address to delete, due time
  issued,       \* nonces handed out so far (uuidv4 never repeats)
  vreq          \* per /wallet/verify request: body, position and outcome

govVars == <<now, memberCount, members, memberRoles, proposals, votes, req>>
postVars == <<month, users, posts, postAnchors, preq>>
coreVars == <<postIds, corePosts, tokenOwner, tx>>
rateVars == <<opsNow, userOps, admitted, lastOp>>
nonceVars == <<nonceNow, nonceStore, timers, issued, vreq>>
nonGovernance == <<postVars, coreVars, rateVars, nonceVars>>
vars == <<govVars, postVars, coreVars, rateVars, nonceVars>>

\* ----------------------------------------------------------- helpers ----
Permissions(role) ==
  IF role = "Admin" THEN AdminPermissions
  ELSE IF role = "Member" THEN MemberPermissions
  ELSE {}

\* any role at all is taken for the permission
HasPermissionAnyRole(roles, p) == roles # {}

\* membership.roles.some(mr => mr.role.permissions.includes(p))
HasPermission(roles, p) == \E role \in roles : p \in Permissions(role)

RolesOf(u) == {mr[2] : mr \in {x \in memberRoles : x[1] = u}}

\* votes: { where: { userId } } of one proposal
VotesOf(pid, u) == SelectSeq(votes, LAMBDA v : v.proposalId = pid /\ v.userId = u)

\* a weight resolver that finds no holdings
VotingWeightZero(votingPower) == 0

\* votingWeight of the vote route: 1 in every voting-power mode
VotingWeight(votingPower) ==
  IF votingPower = "TOKEN_WEIGHTED" THEN 1
  ELSE IF votingPower = "NFT_WEIGHTED" THEN 1
  ELSE 1

\* the comparison turned round
WindowClosedReversed(t, votingEndsAt) == t < votingEndsAt

\* new Date() > proposal.votingEndsAt
WindowClosed(t, votingEndsAt) == t > votingEndsAt

\* participationRate >= requiredQuorum
QuorumMet(totalVotes, totalMembers, requiredQuorum) ==
  totalVotes * 100 >= requiredQuorum * totalMembers

\* yesPercentage >= passingThreshold
ThresholdMet(yesVotes, totalVotes, passingThreshold) ==
  yesVotes * 100 >= passingThreshold * totalVotes

\* a resolution that passes a proposal only once its window is over
ResolutionAtExpiryOnly(upd, totalMembers, t) ==
  IF QuorumMet(upd.totalVotes, totalMembers, upd.requiredQuorum)
     /\ WindowClosed(t, upd.votingEndsAt)
  THEN IF ThresholdMet(upd.yesVotes, upd.totalVotes, upd.passingThreshold)
       THEN "PASSED" ELSE "FAILED"
  ELSE "NONE"

\* a resolution that fails a quorate proposal as soon as it misses the
\* threshold
ResolutionFailsInWindow(upd, totalMembers, t) ==
  IF QuorumMet(upd.totalVotes, totalMembers, upd.requiredQuorum)
  THEN IF ThresholdMet(upd.yesVotes, upd.totalVotes, upd.passingThreshold)
       THEN "PASSED" ELSE "FAILED"
  ELSE "NONE"

\* the status the vote route decides to write after its tally update,
\* "NONE" when it writes nothing
Resolution(upd, totalMembers, t) ==
  IF QuorumMet(upd.totalVotes, totalMembers, upd.requiredQuorum)
  THEN IF ThresholdMet(upd.yesVotes, upd.totalVotes, upd.passingThreshold)
       THEN "PASSED"
       ELSE IF WindowClosed(t, upd.votingEndsAt) THEN "FAILED" ELSE "NONE"
  ELSE "NONE"

NoRow ==
  [found |-> FALSE, status |-> "NONE", votingEndsAt |-> 0,
   requiredQuorum |-> 0, passingThreshold |-> 0,
   yesVotes |-> 0, noVotes |-> 0, totalVotes |-> 0]

\* a proposal row as a handler sees it
RowOf(pid) ==
  IF pid \in 1..Len(proposals)
  THEN [found |-> TRUE, status |-> proposals[pid].status,
        votingEndsAt |-> proposals[pid].votingEndsAt,
        requiredQuorum |-> proposals[pid].requiredQuorum,
        passingThreshold |-> proposals[pid].passingThreshold,
        yesVotes |-> proposals[pid].yesVotes,
        noVotes |-> proposals[pid].noVotes,
        totalVotes |-> proposals[pid].totalVotes]
  ELSE NoRow

IdleReq ==
  [op |-> "none", pc |-> "idle", user |-> 0, pid |-> 0, vote |-> FALSE,
   row |-> NoRow, totalMembers |-> 0, hasVoted |-> FALSE, upd |-> NoRow,
   write |-> "NONE", t0 |-> 0, dur |-> 0, quorumIn |-> 0, thresholdIn |-> 0,
   list |-> <<>>, result |-> "none"]

\* the handler has answered: what the caller got back stays in the slot, the
\* handler's other locals are gone
Done(r, res) ==
  [IdleReq EXCEPT !.op = req[r].op, !.pc = "done", !.user = req[r].user,
                  !.pid = req[r].pid, !.vote = req[r].vote, !.t0 = req[r].t0,
                  !.upd = req[r].upd, !.write = req[r].write, !.result = res]

\* ------------------------------------------- posts routes: the store ----
DefaultFreeAnchors == 10
MonthsPerYear == 12
PostAuthor == 1
PostUsers == 1..2
PostRows == 1..NPosts
MissingPost == NPosts + 1
PostReqs == 1..NPostReq

\* parseInt(process.env.FREE_ANCHORS_PER_MONTH) || 10
maxFreeAnchors ==
  IF FreeAnchorsPerMonthEnv # 0 THEN FreeAnchorsPerMonthEnv ELSE DefaultFreeAnchors

\* Date.prototype.getMonth() of a date in calendar month m
GetMonth(m) == m % MonthsPerYear

IdlePostReq ==
  [op |-> "none", pc |-> "idle", user |-> 0, pid |-> 0,
   freeAnchorsUsed |-> 0, lastAnchorReset |-> 0, anchoredAt |-> 0,
   result |-> "none"]

\* the handler has answered: what the caller got back stays in the slot
\* (for an anchor, post.anchoredAt), the handler's other locals are gone
PostDone(r, res) ==
  [IdlePostReq EXCEPT !.op = preq[r].op, !.pc = "done", !.user = preq[r].user,
                      !.pid = preq[r].pid, !.anchoredAt = preq[r].anchoredAt,
                      !.result = res]

\* PostAuthor has published NPosts posts (POST /api/posts writes status
\* PUBLISHED) and nobody has anchored anything yet this month
PostsInit ==
  /\ month = 0
  /\ users = [u \in PostUsers |-> [freeAnchorsUsed |-> 0, lastAnchorReset |-> 0]]
  /\ posts = [p \in PostRows |->
                [authorId |-> PostAuthor, isAnchored |-> FALSE, isMinted |-> FALSE,
                 status |-> "PUBLISHED"]]
  /\ postAnchors = [u \in PostUsers |-> [m \in 0..MaxMonth |-> 0]]
  /\ preq = [r \in PostReqs |-> IdlePostReq]

\* --------------------------------------------- NexusCore: the storage ----
Addresses == 1..NAddresses
CorePostIds == 0..(MaxCorePosts + 1)
NoPost == [author |-> 0, isNFT |-> FALSE, tokenId |-> 0]

\* the contract as deployed: every mapping entry is zero
CoreInit ==
  /\ postIds = 0
  /\ corePosts = [i \in CorePostIds |-> NoPost]
  /\ tokenOwner = [i \in CorePostIds |-> 0]
  /\ tx = [n |-> 0, fn |-> "none", sender |-> 0, postId |-> 0, ok |-> TRUE]

\* ------------------------------------- wallet addresses and their Maps ----
\* an address is sent in lower case or with upper-case hex digits
WalletIds == 1..NWallets
WalletInputs == WalletIds \X BOOLEAN
toLowerCase(w) == <<w[1], FALSE>>
WalletKeys == {toLowerCase(w) : w \in WalletInputs}
NoWallet == <<0, FALSE>>

maxOpsPerHour == MaxOpsPerHourArg
OpsStepMs == HourMs \div 2

\* the middleware as built: an empty Map
RateInit ==
  /\ opsNow = 0
  /\ userOps = [k \in WalletKeys |-> <<>>]
  /\ admitted = [k \in WalletKeys |-> <<>>]
  /\ lastOp = [wallet |-> NoWallet, at |-> 0, outcome |-> "none"]

FiveMinutesMs == 300000
NonceStepMs == FiveMinutesMs \div 2
NoNonce == [nonce |-> 0, expires |-> 0]
NonceIds == 1..MaxNonces
VerifyReqs == 1..NVerify
IdleVerify == [pc |-> "idle", key |-> NoWallet, nonce |-> 0, result |-> "none"]

\* the module as loaded: an empty nonceStore, no timer pending
NonceInit ==
  /\ nonceNow = 0
  /\ nonceStore = [k \in WalletKeys |-> NoNonce]
  /\ timers = {}
  /\ issued = 0
  /\ vreq = [r \in VerifyReqs |-> IdleVerify]

EdgeInit == RateInit /\ NonceInit

\* the community as POST /api/communities leaves it, nothing in flight
GovInit ==
  /\ now = 0
  /\ memberCount = 1
  /\ members = {Owner}
  /\ memberRoles = {<<Owner, "Admin">>}
  /\ proposals = <<>>
  /\ votes = <<>>
  /\ req = [r \in Reqs |-> IdleReq]

\* -------------------------------------------------------------- Init ----
\* configurations of the proposal that exists at the start: (quorum, threshold)
InitialConfigs == {<<25, 60>>, <<50, 60>>}

\* the row POST /:communityId/proposals inserts
NewProposal(start, end, quorum, threshold) ==
  [status |-> "ACTIVE", votingStartsAt |-> start, votingEndsAt |-> end,
   requiredQuorum |-> quorum, passingThreshold |-> threshold,
   yesVotes |-> 0, noVotes |-> 0, totalVotes |-> 0]

\* The store after POST /api/communities by Owner (sole member, Admin role,
\* memberCount 1), after users 1..k have each joined (Member role, one
\* increment of memberCount each), and either before any proposal exists or
\* after Owner has created one at time 0 with a voting duration of one hour.
\* No request is in flight.
Init ==
  /\ now = 0
  /\ \E k \in 0..NJoiners :
       /\ memberCount = 1 + k
       /\ members = {Owner} \cup (1..k)
       /\ memberRoles = {<<Owner, "Admin">>} \cup {<<u, "Member">> : u \in 1..k}
  /\ \/ proposals = <<>>
     \/ \E c \in InitialConfigs :
          proposals = <<NewProposal(0, 1 * 60 * 60 * 1000, c[1], c[2])>>
  /\ votes = <<>>
  /\ req = [r \in Reqs |-> IdleReq]
  /\ PostsInit
  /\ CoreInit
  /\ EdgeInit

\* request slots are taken in order: slot r serves the r-th request
Free(r) == req[r].pc = "idle" /\ \A q \in 1..(r - 1) : req[q].pc # "idle"

\* ------------------------------------------------------------- clock ----
Tick ==
  /\ now < MaxTime * HourMs
  /\ now' = now + HourMs
  /\ UNCHANGED <<memberCount, members, memberRoles, proposals, votes, req>>
  /\ UNCHANGED nonGovernance

\* ------------------------------------- POST /:communityId/join ----------
\* community.findUnique with the caller's membership; 409 when a row exists
JoinFind(r, u) ==
  /\ Free(r)
  /\ req' = [req EXCEPT ![r] =
       IF u \in members
       THEN [IdleReq EXCEPT !.op = "join", !.user = u, !.pc = "done",
                            !.result = "AlreadyMember"]
       ELSE [IdleReq EXCEPT !.op = "join", !.user = u, !.pc = "joinMember"]]
  /\ UNCHANGED <<now, memberCount, members, memberRoles, proposals, votes>>
  /\ UNCHANGED nonGovernance

\* communityMember.create; the (userId, communityId) key is unique, so a
\* second insert for the user throws P2002 (409)
JoinCreateMember(r) ==
  /\ req[r].pc = "joinMember"
  /\ IF req[r].user \in members
     THEN /\ req' = [req EXCEPT ![r] = Done(r, "Conflict")]
          /\ UNCHANGED members
     ELSE /\ members' = members \cup {req[r].user}
          /\ req' = [req EXCEPT ![r].pc = "joinRole"]
  /\ UNCHANGED <<now, memberCount, memberRoles, proposals, votes>>
  /\ UNCHANGED nonGovernance

\* communityRole.findFirst({name: 'Member'}) and communityMemberRole.create
JoinCreateMemberRole(r) ==
  /\ req[r].pc = "joinRole"
  /\ memberRoles' = memberRoles \cup {<<req[r].user, "Member">>}
  /\ req' = [req EXCEPT ![r].pc = "joinCount"]
  /\ UNCHANGED <<now, memberCount, members, proposals, votes>>
  /\ UNCHANGED nonGovernance

\* community.update({ memberCount: { increment: 1 } })
JoinUpdateCount(r) ==
  /\ req[r].pc = "joinCount"
  /\ memberCount' = memberCount + 1
  /\ req' = [req EXCEPT ![r] = Done(r, "ok")]
  /\ UNCHANGED <<now, members, memberRoles, proposals, votes>>
  /\ UNCHANGED nonGovernance

\* ------------------------------- POST /:communityId/proposals -----------
InRange(x, lo, hi) == x \in lo..hi

\* a validator chain that checks the duration only
ProposalInputValidDurationOnly(duration, quorum, threshold) ==
  InRange(duration, MinVotingDuration, MaxVotingDuration)

\* the express-validator chain of the route
ProposalInputValid(duration, quorum, threshold) ==
  /\ InRange(duration, MinVotingDuration, MaxVotingDuration)
  /\ quorum # Omitted => InRange(quorum, MinPercent, MaxPercent)
  /\ threshold # Omitted => InRange(threshold, MinPercent, MaxPercent)

\* validation, then communityMember.findUnique with roles and the two 403s
CreateProposalMembership(r, u, duration, quorum, threshold) ==
  /\ Free(r)
  /\ Len(proposals) + Cardinality({q \in Reqs : req[q].op = "create" /\ req[q].pc # "done"})
       < MaxProposals
  /\ LET base == [IdleReq EXCEPT !.op = "create", !.user = u, !.dur = duration,
                                 !.quorumIn = quorum, !.thresholdIn = threshold] IN
     req' = [req EXCEPT ![r] =
       IF ~ProposalInputValid(duration, quorum, threshold)
       THEN [base EXCEPT !.pc = "done", !.result = "ValidationError"]
       ELSE IF u \notin members \/ ~HasPermission(RolesOf(u), "CREATE_PROPOSALS")
       THEN [base EXCEPT !.pc = "done", !.result = "PermissionDenied"]
       ELSE [base EXCEPT !.pc = "createWindow",
               !.row = [NoRow EXCEPT
                  !.requiredQuorum = IF quorum = Omitted THEN DefaultQuorum ELSE quorum,
                  !.passingThreshold = IF threshold = Omitted THEN DefaultThreshold
                                       ELSE threshold]]]
  /\ UNCHANGED <<now, memberCount, members, memberRoles, proposals, votes>>
  /\ UNCHANGED nonGovernance

\* the voting period taken in minutes
CreateProposalWindowMinutes(r) ==
  /\ req[r].pc = "createWindow"
  /\ req' = [req EXCEPT ![r].pc = "createInsert", ![r].t0 = now,
                        ![r].row.votingEndsAt = now + req[r].dur * 60 * 1000]
  /\ UNCHANGED <<now, memberCount, members, memberRoles, proposals, votes>>
  /\ UNCHANGED nonGovernance

\* votingStartsAt = new Date(); votingEndsAt = start + duration * 60*60*1000
CreateProposalWindow(r) ==
  /\ req[r].pc = "createWindow"
  /\ req' = [req EXCEPT ![r].pc = "createInsert", ![r].t0 = now,
                        ![r].row.votingEndsAt = now + req[r].dur * 60 * 60 * 1000]
  /\ UNCHANGED <<now, memberCount, members, memberRoles, proposals, votes>>
  /\ UNCHANGED nonGovernance

\* proposal.create: status ACTIVE, tallies at their column default 0
CreateProposalInsert(r) ==
  /\ req[r].pc = "createInsert"
  /\ proposals' = Append(proposals,
       NewProposal(req[r].t0, req[r].row.votingEndsAt,
                   req[r].row.requiredQuorum, req[r].row.passingThreshold))
  /\ req' = [req EXCEPT ![r] = [Done(r, "ok") EXCEPT !.pid = Len(proposals) + 1]]
  /\ UNCHANGED <<now, memberCount, members, memberRoles, votes>>
  /\ UNCHANGED nonGovernance

\* ------------------- POST /:communityId/proposals/:proposalId/vote ------
IsBoolean(v) == v \in {"true", "false"}

\* validation, then proposal.findUnique with community and the caller's votes
CastVoteFind(r, u, pid, v) ==
  /\ Free(r)
  /\ LET base == [IdleReq EXCEPT !.op = "vote", !.user = u, !.pid = pid,
                                 !.vote = (v = "true"), !.t0 = now] IN
     req' = [req EXCEPT ![r] =
       IF ~IsBoolean(v)
       THEN [base EXCEPT !.pc = "done", !.result = "ValidationError"]
       ELSE [base EXCEPT !.pc = "voteCheck", !.row = RowOf(pid),
               !.totalMembers = IF RowOf(pid).found THEN memberCount ELSE 0,
               !.hasVoted = Len(VotesOf(pid, u)) > 0]]
  /\ UNCHANGED <<now, memberCount, members, memberRoles, proposals, votes>>
  /\ UNCHANGED nonGovernance

\* the 404 / not active / window / already voted checks on what was read
CastVoteCheck(r) ==
  /\ req[r].pc = "voteCheck"
  /\ req' = [req EXCEPT ![r] =
       IF ~req[r].row.found THEN Done(r, "ProposalNotFound")
       ELSE IF req[r].row.status # "ACTIVE" THEN Done(r, "ProposalNotActive")
       ELSE IF WindowClosed(now, req[r].row.votingEndsAt)
            THEN Done(r, "VotingWindowClosed")
       ELSE IF req[r].hasVoted THEN Done(r, "DuplicateVote")
       ELSE [req[r] EXCEPT !.pc = "voteMember", !.row = NoRow, !.hasVoted = FALSE]]
  /\ UNCHANGED <<now, memberCount, members, memberRoles, proposals, votes>>
  /\ UNCHANGED nonGovernance

\* the vote is recorded first and the membership checked afterwards
CastVoteMembershipLate(r) ==
  /\ req[r].pc = "voteMember"
  /\ votes' = Append(votes,
       [proposalId |-> req[r].pid, userId |-> req[r].user,
        vote |-> req[r].vote, weight |-> VotingWeight("EQUAL")])
  /\ req' = [req EXCEPT ![r] =
       IF req[r].user \notin members
          \/ ~HasPermission(RolesOf(req[r].user), "VOTE")
       THEN Done(r, "PermissionDenied")
       ELSE [req[r] EXCEPT !.pc = "voteUpdate"]]
  /\ UNCHANGED <<now, memberCount, members, memberRoles, proposals>>
  /\ UNCHANGED nonGovernance

\* communityMember.findUnique with roles and the two 403s
CastVoteMembership(r) ==
  /\ req[r].pc = "voteMember"
  /\ req' = [req EXCEPT ![r] =
       IF req[r].user \notin members
          \/ ~HasPermission(RolesOf(req[r].user), "VOTE")
       THEN Done(r, "PermissionDenied")
       ELSE [req[r] EXCEPT !.pc = "voteCreate"]]
  /\ UNCHANGED <<now, memberCount, members, memberRoles, proposals, votes>>
  /\ UNCHANGED nonGovernance

\* an upsert: a voter's earlier row for the proposal is overwritten
CastVoteUpsert(r) ==
  /\ req[r].pc = "voteCreate"
  /\ LET row == [proposalId |-> req[r].pid, userId |-> req[r].user,
                 vote |-> req[r].vote, weight |-> VotingWeight("EQUAL")]
         old == {i \in 1..Len(votes) : /\ votes[i].proposalId = req[r].pid
                                       /\ votes[i].userId = req[r].user} IN
     votes' = IF old = {} THEN Append(votes, row)
              ELSE [i \in 1..Len(votes) |-> IF i \in old THEN row ELSE votes[i]]
  /\ req' = [req EXCEPT ![r].pc = "voteUpdate"]
  /\ UNCHANGED <<now, memberCount, members, memberRoles, proposals>>
  /\ UNCHANGED nonGovernance

\* proposalVote.create
CastVoteCreate(r) ==
  /\ req[r].pc = "voteCreate"
  /\ votes' = Append(votes,
       [proposalId |-> req[r].pid, userId |-> req[r].user,
        vote |-> req[r].vote, weight |-> VotingWeight("EQUAL")])
  /\ req' = [req EXCEPT ![r].pc = "voteUpdate"]
  /\ UNCHANGED <<now, memberCount, members, memberRoles, proposals>>
  /\ UNCHANGED nonGovernance

\* updateData that assigns the weight where the route increments by it
ApplyVoteAssign(p, vote, w) ==
  IF vote
  THEN [p EXCEPT !.yesVotes = w, !.totalVotes = w]
  ELSE [p EXCEPT !.noVotes = w, !.totalVotes = w]

\* updateData that leaves totalVotes out for a no vote
ApplyVoteNoTotal(p, vote, w) ==
  IF vote
  THEN [p EXCEPT !.yesVotes = @ + w, !.totalVotes = @ + w]
  ELSE [p EXCEPT !.noVotes = @ + w]

\* updateData that clears the opposite counter
ApplyVoteExclusive(p, vote, w) ==
  IF vote
  THEN [p EXCEPT !.yesVotes = @ + w, !.noVotes = 0, !.totalVotes = @ + w]
  ELSE [p EXCEPT !.noVotes = @ + w, !.yesVotes = 0, !.totalVotes = @ + w]

\* updateData that also pushes the end of the window back by an hour
ApplyVoteExtendsWindow(p, vote, w) ==
  IF vote
  THEN [p EXCEPT !.yesVotes = @ + w, !.totalVotes = @ + w,
                 !.votingEndsAt = @ + HourMs]
  ELSE [p EXCEPT !.noVotes = @ + w, !.totalVotes = @ + w,
                 !.votingEndsAt = @ + HourMs]

\* updateData of the vote route applied to a row
ApplyVote(p, vote, w) ==
  IF vote
  THEN [p EXCEPT !.yesVotes = @ + w, !.totalVotes = @ + w]
  ELSE [p EXCEPT !.noVotes = @ + w, !.totalVotes = @ + w]

\* an update without its where clause: every proposal is incremented
CastVoteUpdateAll(r) ==
  /\ req[r].pc = "voteUpdate"
  /\ proposals' = [pid \in 1..Len(proposals) |->
                     ApplyVote(proposals[pid], req[r].vote, VotingWeight("EQUAL"))]
  /\ req' = [req EXCEPT ![r].pc = "voteResolve",
                        ![r].upd = [RowOf(req[r].pid) EXCEPT
                           !.yesVotes = proposals'[req[r].pid].yesVotes,
                           !.noVotes = proposals'[req[r].pid].noVotes,
                           !.totalVotes = proposals'[req[r].pid].totalVotes]]
  /\ UNCHANGED <<now, memberCount, members, memberRoles, votes>>
  /\ UNCHANGED nonGovernance

\* a tally update that waits while another request holds the same step
CastVoteUpdateLocked(r) ==
  /\ req[r].pc = "voteUpdate"
  /\ \A q \in Reqs \ {r} : req[q].pc # "voteUpdate"
  /\ proposals' = [proposals EXCEPT ![req[r].pid] =
                     ApplyVote(@, req[r].vote, VotingWeight("EQUAL"))]
  /\ req' = [req EXCEPT ![r].pc = "voteResolve",
                        ![r].upd = [RowOf(req[r].pid) EXCEPT
                           !.yesVotes = proposals'[req[r].pid].yesVotes,
                           !.noVotes = proposals'[req[r].pid].noVotes,
                           !.totalVotes = proposals'[req[r].pid].totalVotes]]
  /\ UNCHANGED <<now, memberCount, members, memberRoles, votes>>
  /\ UNCHANGED nonGovernance

\* proposal.update with the increments; the store returns the updated row
CastVoteUpdate(r) ==
  /\ req[r].pc = "voteUpdate"
  /\ proposals' = [proposals EXCEPT ![req[r].pid] =
                     ApplyVote(@, req[r].vote, VotingWeight("EQUAL"))]
  /\ req' = [req EXCEPT ![r].pc = "voteResolve",
                        ![r].upd = [RowOf(req[r].pid) EXCEPT
                           !.yesVotes = proposals'[req[r].pid].yesVotes,
                           !.noVotes = proposals'[req[r].pid].noVotes,
                           !.totalVotes = proposals'[req[r].pid].totalVotes]]
  /\ UNCHANGED <<now, memberCount, members, memberRoles, votes>>
  /\ UNCHANGED nonGovernance

\* "Check if proposal should be resolved": decided on the returned row, the
\* memberCount read with the proposal, and the clock
CastVoteResolve(r) ==
  /\ req[r].pc = "voteResolve"
  /\ LET w == Resolution(req[r].upd, req[r].totalMembers, now) IN
     req' = [req EXCEPT ![r] =
       IF w = "NONE" THEN Done(r, "ok")
       ELSE [req[r] EXCEPT !.pc = "voteStatus", !.write = w, !.totalMembers = 0]]
  /\ UNCHANGED <<now, memberCount, members, memberRoles, proposals, votes>>
  /\ UNCHANGED nonGovernance

\* proposal.update({ status }), then the event and the response
CastVoteStatus(r) ==
  /\ req[r].pc = "voteStatus"
  /\ proposals' = [proposals EXCEPT ![req[r].pid].status = req[r].write]
  /\ req' = [req EXCEPT ![r] = Done(r, "ok")]
  /\ UNCHANGED <<now, memberCount, members, memberRoles, votes>>
  /\ UNCHANGED nonGovernance

\* res.json of a vote that succeeded: the proposal part of the body, built
\* from the row the tally update returned
VoteResponse(q) ==
  [yesVotes |-> q.upd.yesVotes, noVotes |-> q.upd.noVotes,
   totalVotes |-> q.upd.totalVotes]

\* what a vote that succeeded has emitted to the community's room
VoteEvents(q) ==
  {[event |-> "proposalVote", proposalId |-> q.pid,
    yesVotes |-> q.upd.yesVotes, noVotes |-> q.upd.noVotes,
    totalVotes |-> q.upd.totalVotes]}

\* ------------------------------ GET /:communityId/proposals ------------
\* communityMember.findUnique; 403 for a non-member
ReadMembership(r, u) ==
  /\ Free(r)
  /\ req' = [req EXCEPT ![r] =
       IF u \notin members
       THEN [IdleReq EXCEPT !.op = "read", !.user = u, !.pc = "done",
                            !.result = "PermissionDenied"]
       ELSE [IdleReq EXCEPT !.op = "read", !.user = u, !.pc = "readFind"]]
  /\ UNCHANGED <<now, memberCount, members, memberRoles, proposals, votes>>
  /\ UNCHANGED nonGovernance

\* proposal.findMany with the caller's votes
ReadFindMany(r) ==
  /\ req[r].pc = "readFind"
  /\ req' = [req EXCEPT ![r].pc = "readFormat",
       ![r].list = [pid \in 1..Len(proposals) |->
                     [row |-> RowOf(pid), votes |-> VotesOf(pid, req[r].user)]]]
  /\ UNCHANGED <<now, memberCount, members, memberRoles, proposals, votes>>
  /\ UNCHANGED nonGovernance

\* one element of formattedProposals
FormatProposal(p, t) ==
  LET hasVoted == Len(p.votes) > 0
      timeRemaining == IF p.row.votingEndsAt - t > 0 THEN p.row.votingEndsAt - t ELSE 0
      isActive == p.row.status = "ACTIVE" /\ timeRemaining > 0
  IN [status |-> p.row.status, yesVotes |-> p.row.yesVotes,
      noVotes |-> p.row.noVotes, totalVotes |-> p.row.totalVotes,
      hasVoted |-> hasVoted,
      userVote |-> IF hasVoted /\ p.votes[1].vote THEN "true" ELSE "null",
      timeRemaining |-> timeRemaining, isActive |-> isActive,
      canVote |-> isActive /\ ~hasVoted]

\* formattedProposals and the response; nothing is written
ReadFormat(r) ==
  /\ req[r].pc = "readFormat"
  /\ req' = [req EXCEPT ![r] = [Done(r, "ok") EXCEPT !.t0 = now,
       !.list = [i \in 1..Len(req[r].list) |-> FormatProposal(req[r].list[i], now)]]]
  /\ UNCHANGED <<now, memberCount, members, memberRoles, proposals, votes>>
  /\ UNCHANGED nonGovernance

\* ------------------------------------------------------ environment ----
\* a store call throws (connection lost, timeout): the handler's catch
\* passes the error on and nothing of the request is undone
AwaitingStore ==
  {"joinMember", "joinRole", "joinCount", "createInsert", "voteMember",
   "voteCreate", "voteUpdate", "voteStatus", "readFind"}

StoreError(r) ==
  /\ req[r].pc \in AwaitingStore
  /\ req' = [req EXCEPT ![r] = Done(r, "StoreError")]
  /\ UNCHANGED <<now, memberCount, members, memberRoles, proposals, votes>>
  /\ UNCHANGED nonGovernance

Next ==
  \/ Tick
  \/ \E r \in Reqs, u \in Users : JoinFind(r, u)
  \/ \E r \in Reqs : JoinCreateMember(r)
  \/ \E r \in Reqs : JoinCreateMemberRole(r)
  \/ \E r \in Reqs : JoinUpdateCount(r)
  \/ \E r \in Reqs, u \in Users, d \in DurationInputs, q \in QuorumInputs,
        t \in ThresholdInputs : CreateProposalMembership(r, u, d, q, t)
  \/ \E r \in Reqs : CreateProposalWindow(r)
  \/ \E r \in Reqs : CreateProposalInsert(r)
  \/ \E r \in Reqs, u \in Users, pid \in ProposalIds, v \in VoteInputs :
        CastVoteFind(r, u, pid, v)
  \/ \E r \in Reqs : CastVoteCheck(r)
  \/ \E r \in Reqs : CastVoteMembership(r)
  \/ \E r \in Reqs : CastVoteCreate(r)
  \/ \E r \in Reqs : CastVoteUpdate(r)
  \/ \E r \in Reqs : CastVoteResolve(r)
  \/ \E r \in Reqs : CastVoteStatus(r)
  \/ \E r \in Reqs, u \in Users : ReadMembership(r, u)
  \/ \E r \in Reqs : ReadFindMany(r)
  \/ \E r \in Reqs : ReadFormat(r)
  \/ \E r \in Reqs : StoreError(r)

Spec == Init /\ [][Next]_vars

\* --------------------------------------------------- fair scheduling ----
\* the next step of the handler in slot r once the store or the event loop
\* lets it go on
Continue(r) ==
  \/ JoinCreateMember(r) \/ JoinCreateMemberRole(r) \/ JoinUpdateCount(r)
  \/ CreateProposalWindow(r) \/ CreateProposalInsert(r)
  \/ CastVoteCheck(r) \/ CastVoteMembership(r) \/ CastVoteCreate(r)
  \/ CastVoteUpdate(r) \/ CastVoteResolve(r) \/ CastVoteStatus(r)
  \/ ReadFindMany(r) \/ ReadFormat(r)

\* the store answers every call and the event loop runs every continuation
SpecLive == Spec /\ \A r \in Reqs : WF_vars(Continue(r))

\* ------------------------------------------ several open proposals ----
\* Votes on a community in which every user has joined and Owner has created
\* NOpen proposals at time 0, each for one hour.
OpenConfig(i) == IF i % 2 = 1 THEN <<25, 60>> ELSE <<50, 60>>

InitOpen ==
  /\ now = 0
  /\ memberCount = 1 + NJoiners
  /\ members = Users
  /\ memberRoles = {<<Owner, "Admin">>} \cup {<<u, "Member">> : u \in 1..NJoiners}
  /\ proposals = [i \in 1..NOpen |->
                    NewProposal(0, 1 * 60 * 60 * 1000, OpenConfig(i)[1], OpenConfig(i)[2])]
  /\ votes = <<>>
  /\ req = [r \in Reqs |-> IdleReq]
  /\ PostsInit
  /\ CoreInit
  /\ EdgeInit

NextOpen ==
  \/ Tick
  \/ \E r \in Reqs, u \in Users, pid \in 1..(NOpen + 1), v \in VoteInputs :
        CastVoteFind(r, u, pid, v)
  \/ \E r \in Reqs : CastVoteCheck(r)
  \/ \E r \in Reqs : CastVoteMembership(r)
  \/ \E r \in Reqs : CastVoteCreate(r)
  \/ \E r \in Reqs : CastVoteUpdate(r)
  \/ \E r \in Reqs : CastVoteResolve(r)
  \/ \E r \in Reqs : CastVoteStatus(r)
  \/ \E r \in Reqs : StoreError(r)

SpecOpen == InitOpen /\ [][NextOpen]_vars

\* ======================================================== posts routes ==
\* Every await of a handler is one step.  req.user is the user row as the JWT
\* strategy read it when the request was authenticated; the handlers do not
\* read it again.
FreePost(r) == preq[r].pc = "idle" /\ \A q \in 1..(r - 1) : preq[q].pc # "idle"

MonthTick ==
  /\ month < MaxMonth
  /\ month' = month + 1
  /\ UNCHANGED <<users, posts, postAnchors, preq>>
  /\ UNCHANGED <<govVars, coreVars, rateVars, nonceVars>>

\* passport jwt (user.findUnique), then checkWeb3Access on the wallet header
Authenticate(r, op, u, pid, wallet) ==
  /\ FreePost(r)
  /\ LET base == [IdlePostReq EXCEPT !.op = op, !.user = u, !.pid = pid] IN
     preq' = [preq EXCEPT ![r] =
       IF ~wallet
       THEN [base EXCEPT !.pc = "done", !.result = "Web3Required"]
       ELSE [base EXCEPT !.pc = IF op = "anchor" THEN "anchorFind" ELSE "mintFind",
                         !.freeAnchorsUsed = users[u].freeAnchorsUsed,
                         !.lastAnchorReset = users[u].lastAnchorReset]]
  /\ UNCHANGED <<month, users, posts, postAnchors>>
  /\ UNCHANGED <<govVars, coreVars, rateVars, nonceVars>>

\* the 402 of the anchor route, on req.user
AnchorLimit(q) ==
  IF q.freeAnchorsUsed >= maxFreeAnchors
  THEN [IdlePostReq EXCEPT !.op = q.op, !.pc = "done", !.user = q.user,
                           !.pid = q.pid, !.result = "LimitReached"]
  ELSE [q EXCEPT !.pc = "anchorChain"]

\* post.findUnique, the 404 / 403 / already anchored checks, and the month
\* comparison on req.user.lastAnchorReset
AnchorFind(r) ==
  /\ preq[r].pc = "anchorFind"
  /\ LET q == preq[r] IN
     preq' = [preq EXCEPT ![r] =
       IF q.pid \notin PostRows THEN PostDone(r, "PostNotFound")
       ELSE IF posts[q.pid].authorId # q.user THEN PostDone(r, "Forbidden")
       ELSE IF posts[q.pid].isAnchored THEN PostDone(r, "AlreadyAnchored")
       ELSE IF GetMonth(month) # GetMonth(q.lastAnchorReset)
            THEN [q EXCEPT !.pc = "anchorReset", !.lastAnchorReset = month]
       ELSE AnchorLimit(q)]
  /\ UNCHANGED <<month, users, posts, postAnchors>>
  /\ UNCHANGED <<govVars, coreVars, rateVars, nonceVars>>

\* user.update({ freeAnchorsUsed: 0, lastAnchorReset }), then
\* req.user.freeAnchorsUsed = 0 and the limit check
AnchorReset(r) ==
  /\ preq[r].pc = "anchorReset"
  /\ users' = [users EXCEPT ![preq[r].user] =
                 [freeAnchorsUsed |-> 0, lastAnchorReset |-> preq[r].lastAnchorReset]]
  /\ preq' = [preq EXCEPT ![r] = AnchorLimit([preq[r] EXCEPT !.freeAnchorsUsed = 0])]
  /\ UNCHANGED <<month, posts, postAnchors>>
  /\ UNCHANGED <<govVars, coreVars, rateVars, nonceVars>>

\* anchorPost(contentHash, walletAddress): the chain accepts or the call throws
AnchorChain(r, accepted) ==
  /\ preq[r].pc = "anchorChain"
  /\ preq' = [preq EXCEPT ![r] =
       IF accepted THEN [preq[r] EXCEPT !.pc = "anchorUpdate"]
       ELSE PostDone(r, "ChainError")]
  /\ UNCHANGED <<month, users, posts, postAnchors>>
  /\ UNCHANGED <<govVars, coreVars, rateVars, nonceVars>>

\* post.update({ isAnchored: true, status: 'ANCHORED', anchoredAt })
AnchorUpdatePost(r) ==
  /\ preq[r].pc = "anchorUpdate"
  /\ posts' = [posts EXCEPT ![preq[r].pid].isAnchored = TRUE,
                            ![preq[r].pid].status = "ANCHORED"]
  /\ preq' = [preq EXCEPT ![r].pc = "anchorRecord", ![r].anchoredAt = month]
  /\ UNCHANGED <<month, users, postAnchors>>
  /\ UNCHANGED <<govVars, coreVars, rateVars, nonceVars>>

\* postAnchor.create
AnchorCreateRecord(r) ==
  /\ preq[r].pc = "anchorRecord"
  /\ postAnchors' = [postAnchors EXCEPT ![preq[r].user][month] = @ + 1]
  /\ preq' = [preq EXCEPT ![r].pc = "anchorCount"]
  /\ UNCHANGED <<month, users, posts>>
  /\ UNCHANGED <<govVars, coreVars, rateVars, nonceVars>>

\* user.update({ freeAnchorsUsed: { increment: 1 } }), event and response
AnchorIncrement(r) ==
  /\ preq[r].pc = "anchorCount"
  /\ users' = [users EXCEPT ![preq[r].user].freeAnchorsUsed = @ + 1]
  /\ preq' = [preq EXCEPT ![r] = PostDone(r, "ok")]
  /\ UNCHANGED <<month, posts, postAnchors>>
  /\ UNCHANGED <<govVars, coreVars, rateVars, nonceVars>>

\* post.findUnique and the 404 / 403 / not anchored / already minted checks
MintFind(r) ==
  /\ preq[r].pc = "mintFind"
  /\ LET q == preq[r] IN
     preq' = [preq EXCEPT ![r] =
       IF q.pid \notin PostRows THEN PostDone(r, "PostNotFound")
       ELSE IF posts[q.pid].authorId # q.user THEN PostDone(r, "Forbidden")
       ELSE IF ~posts[q.pid].isAnchored THEN PostDone(r, "NotAnchored")
       ELSE IF posts[q.pid].isMinted THEN PostDone(r, "AlreadyMinted")
       ELSE [q EXCEPT !.pc = "mintUpload"]]
  /\ UNCHANGED <<month, users, posts, postAnchors>>
  /\ UNCHANGED <<govVars, coreVars, rateVars, nonceVars>>

\* uploadToIPFS(metadata)
MintUpload(r, stored) ==
  /\ preq[r].pc = "mintUpload"
  /\ preq' = [preq EXCEPT ![r] =
       IF stored THEN [preq[r] EXCEPT !.pc = "mintChain"]
       ELSE PostDone(r, "UploadError")]
  /\ UNCHANGED <<month, users, posts, postAnchors>>
  /\ UNCHANGED <<govVars, coreVars, rateVars, nonceVars>>

\* mintPostAsNFT(post.id, tokenURI, walletAddress)
MintChain(r, accepted) ==
  /\ preq[r].pc = "mintChain"
  /\ preq' = [preq EXCEPT ![r] =
       IF accepted THEN [preq[r] EXCEPT !.pc = "mintUpdate"]
       ELSE PostDone(r, "ChainError")]
  /\ UNCHANGED <<month, users, posts, postAnchors>>
  /\ UNCHANGED <<govVars, coreVars, rateVars, nonceVars>>

\* post.update({ isMinted: true, status: 'MINTED', tokenId, ... })
MintUpdatePost(r) ==
  /\ preq[r].pc = "mintUpdate"
  /\ posts' = [posts EXCEPT ![preq[r].pid].isMinted = TRUE,
                            ![preq[r].pid].status = "MINTED"]
  /\ preq' = [preq EXCEPT ![r] = PostDone(r, "ok")]
  /\ UNCHANGED <<month, users, postAnchors>>
  /\ UNCHANGED <<govVars, coreVars, rateVars, nonceVars>>

\* a store call of a posts route throws; nothing already written is undone
PostAwaitingStore ==
  {"anchorFind", "anchorReset", "anchorUpdate", "anchorRecord", "anchorCount",
   "mintFind", "mintUpdate"}

PostStoreError(r) ==
  /\ preq[r].pc \in PostAwaitingStore
  /\ preq' = [preq EXCEPT ![r] = PostDone(r, "StoreError")]
  /\ UNCHANGED <<month, users, posts, postAnchors>>
  /\ UNCHANGED <<govVars, coreVars, rateVars, nonceVars>>

NextPosts ==
  \/ MonthTick
  \/ \E r \in PostReqs, op \in {"anchor", "mint"}, u \in PostUsers,
        pid \in PostRows \cup {MissingPost}, wallet \in BOOLEAN :
        Authenticate(r, op, u, pid, wallet)
  \/ \E r \in PostReqs : AnchorFind(r)
  \/ \E r \in PostReqs : AnchorReset(r)
  \/ \E r \in PostReqs, accepted \in BOOLEAN : AnchorChain(r, accepted)
  \/ \E r \in PostReqs : AnchorUpdatePost(r)
  \/ \E r \in PostReqs : AnchorCreateRecord(r)
  \/ \E r \in PostReqs : AnchorIncrement(r)
  \/ \E r \in PostReqs : MintFind(r)
  \/ \E r \in PostReqs, stored \in BOOLEAN : MintUpload(r, stored)
  \/ \E r \in PostReqs, accepted \in BOOLEAN : MintChain(r, accepted)
  \/ \E r \in PostReqs : MintUpdatePost(r)
  \/ \E r \in PostReqs : PostStoreError(r)

InitPosts == GovInit /\ PostsInit /\ CoreInit /\ EdgeInit

SpecPosts == InitPosts /\ [][NextPosts]_vars

\* =========================================================== NexusCore ==
\* A transaction is atomic: a failed require or a refused _safeMint reverts
\* every write of the call, so each call is one step.
CreatePost(sender) ==
  /\ tx.n < MaxTx
  /\ postIds < MaxCorePosts
  /\ postIds' = postIds + 1
  /\ corePosts' = [corePosts EXCEPT ![postIds + 1] =
                     [author |-> sender, isNFT |-> FALSE, tokenId |-> 0]]
  /\ tx' = [n |-> tx.n + 1, fn |-> "createPost", sender |-> sender,
            postId |-> postIds + 1, ok |-> TRUE]
  /\ UNCHANGED tokenOwner
  /\ UNCHANGED <<govVars, postVars, rateVars, nonceVars>>

\* a mint that does not look at who calls
MintPostAsNFTAnyCaller(sender, postId, received) ==
  /\ tx.n < MaxTx
  /\ IF ~corePosts[postId].isNFT /\ tokenOwner[postId] = 0 /\ received
     THEN /\ corePosts' = [corePosts EXCEPT ![postId].isNFT = TRUE,
                                           ![postId].tokenId = postId]
          /\ tokenOwner' = [tokenOwner EXCEPT ![postId] = sender]
          /\ tx' = [n |-> tx.n + 1, fn |-> "mintPostAsNFT", sender |-> sender,
                    postId |-> postId, ok |-> TRUE]
     ELSE /\ UNCHANGED <<corePosts, tokenOwner>>
          /\ tx' = [n |-> tx.n + 1, fn |-> "mintPostAsNFT", sender |-> sender,
                    postId |-> postId, ok |-> FALSE]
  /\ UNCHANGED postIds
  /\ UNCHANGED <<govVars, postVars, rateVars, nonceVars>>

\* mintPostAsNFT: the two requires, the writes, then _safeMint, which reverts
\* when the token exists or the receiver refuses it
MintPostAsNFT(sender, postId, received) ==
  /\ tx.n < MaxTx
  /\ IF /\ corePosts[postId].author = sender
        /\ ~corePosts[postId].isNFT
        /\ tokenOwner[postId] = 0
        /\ received
     THEN /\ corePosts' = [corePosts EXCEPT ![postId].isNFT = TRUE,
                                           ![postId].tokenId = postId]
          /\ tokenOwner' = [tokenOwner EXCEPT ![postId] = sender]
          /\ tx' = [n |-> tx.n + 1, fn |-> "mintPostAsNFT", sender |-> sender,
                    postId |-> postId, ok |-> TRUE]
     ELSE /\ UNCHANGED <<corePosts, tokenOwner>>
          /\ tx' = [n |-> tx.n + 1, fn |-> "mintPostAsNFT", sender |-> sender,
                    postId |-> postId, ok |-> FALSE]
  /\ UNCHANGED postIds
  /\ UNCHANGED <<govVars, postVars, rateVars, nonceVars>>

NextCore ==
  \/ \E a \in Addresses : CreatePost(a)
  \/ \E a \in Addresses, i \in CorePostIds, received \in BOOLEAN :
        MintPostAsNFT(a, i, received)

InitCore == GovInit /\ PostsInit /\ CoreInit /\ EdgeInit

SpecCore == InitCore /\ [][NextCore]_vars

\* ============================================ rateLimitBlockchainOps ==
\* The middleware is synchronous: one request is one step.
OpsTick ==
  /\ opsNow < MaxOpsTicks * OpsStepMs
  /\ opsNow' = opsNow + OpsStepMs
  /\ UNCHANGED <<userOps, admitted, lastOp>>
  /\ UNCHANGED <<govVars, postVars, coreVars, nonceVars>>

\* a filter that forgets admissions after half an hour
RecentOpsHalfHour(operations, t) ==
  SelectSeq(operations, LAMBDA opTime : t - opTime < OpsStepMs)

\* operations.filter(opTime => now - opTime < hourMs)
RecentOps(operations, t) ==
  SelectSeq(operations, LAMBDA opTime : t - opTime < HourMs)

\* one request through the middleware; w is req.user.walletAddress, NoWallet
\* when the user has none
RateLimit(w) ==
  /\ IF w = NoWallet
     THEN /\ lastOp' = [wallet |-> w, at |-> opsNow, outcome |-> "next"]
          /\ UNCHANGED <<userOps, admitted>>
     ELSE LET walletAddress == toLowerCase(w)
              recentOps == RecentOps(userOps[walletAddress], opsNow)
          IN  IF Len(recentOps) >= maxOpsPerHour
              THEN /\ userOps' = [userOps EXCEPT ![walletAddress] = recentOps]
                   /\ lastOp' = [wallet |-> w, at |-> opsNow, outcome |-> "rejected"]
                   /\ UNCHANGED admitted
              ELSE /\ userOps' = [userOps EXCEPT
                                    ![walletAddress] = Append(recentOps, opsNow)]
                   /\ admitted' = [admitted EXCEPT
                                     ![walletAddress] = Append(@, opsNow)]
                   /\ lastOp' = [wallet |-> w, at |-> opsNow, outcome |-> "next"]
  /\ UNCHANGED opsNow
  /\ UNCHANGED <<govVars, postVars, coreVars, nonceVars>>

NextRate ==
  \/ OpsTick
  \/ \E w \in WalletInputs \cup {NoWallet} : RateLimit(w)

InitRate == GovInit /\ PostsInit /\ CoreInit /\ EdgeInit

SpecRate == InitRate /\ [][NextRate]_vars

\* ======================================================= wallet nonces ==
\* /wallet/nonce is synchronous; /wallet/verify checks the nonce, awaits
\* handleWalletAuthentication and deletes the nonce afterwards.  A timer
\* fires at its due time or later.
NonceTick ==
  /\ nonceNow < MaxNonceTicks * NonceStepMs
  /\ nonceNow' = nonceNow + NonceStepMs
  /\ UNCHANGED <<nonceStore, timers, issued, vreq>>
  /\ UNCHANGED <<govVars, postVars, coreVars, rateVars>>

\* POST /wallet/nonce
IssueNonce(w) ==
  /\ issued < MaxNonces
  /\ issued' = issued + 1
  /\ nonceStore' = [nonceStore EXCEPT ![toLowerCase(w)] =
                      [nonce |-> issued + 1, expires |-> nonceNow + FiveMinutesMs]]
  /\ timers' = timers \cup {[key |-> toLowerCase(w), due |-> nonceNow + FiveMinutesMs]}
  /\ UNCHANGED <<nonceNow, vreq>>
  /\ UNCHANGED <<govVars, postVars, coreVars, rateVars>>

\* the setTimeout callback of /wallet/nonce
TimerFire(t) ==
  /\ t \in timers
  /\ nonceNow >= t.due
  /\ nonceStore' = [nonceStore EXCEPT ![t.key] = NoNonce]
  /\ timers' = timers \ {t}
  /\ UNCHANGED <<nonceNow, issued, vreq>>
  /\ UNCHANGED <<govVars, postVars, coreVars, rateVars>>

FreeVerify(r) ==
  /\ vreq[r].pc = "idle"
  /\ \A q \in VerifyReqs : q < r => vreq[q].pc # "idle"

VerifyDone(r, k, nonce, res) ==
  [pc |-> "done", key |-> k, nonce |-> nonce, result |-> res]

\* POST /wallet/verify up to its await; signed tells whether
\* verifyWalletSignature accepts the signature
VerifyCheck(r, w, nonce, signed) ==
  /\ FreeVerify(r)
  /\ LET normalizedAddress == toLowerCase(w)
         storedNonce == nonceStore[normalizedAddress]
     IN  IF storedNonce = NoNonce \/ storedNonce.nonce # nonce
         THEN /\ vreq' = [vreq EXCEPT ![r] =
                           VerifyDone(r, normalizedAddress, nonce, "InvalidNonce")]
              /\ UNCHANGED nonceStore
         ELSE IF nonceNow > storedNonce.expires
         THEN /\ nonceStore' = [nonceStore EXCEPT ![normalizedAddress] = NoNonce]
              /\ vreq' = [vreq EXCEPT ![r] =
                           VerifyDone(r, normalizedAddress, nonce, "NonceExpired")]
         ELSE IF ~signed
         THEN /\ vreq' = [vreq EXCEPT ![r] =
                           VerifyDone(r, normalizedAddress, nonce, "AuthFailed")]
              /\ UNCHANGED nonceStore
         ELSE /\ vreq' = [vreq EXCEPT ![r] =
                           [pc |-> "auth", key |-> normalizedAddress,
                            nonce |-> nonce, result |-> "none"]]
              /\ UNCHANGED nonceStore
  /\ UNCHANGED <<nonceNow, timers, issued>>
  /\ UNCHANGED <<govVars, postVars, coreVars, rateVars>>

\* handleWalletAuthentication's store calls answer or throw; on an answer
\* the handler deletes the address's entry and responds with the tokens
VerifyAuth(r, answered) ==
  /\ vreq[r].pc = "auth"
  /\ IF answered
     THEN /\ nonceStore' = [nonceStore EXCEPT ![vreq[r].key] = NoNonce]
          /\ vreq' = [vreq EXCEPT ![r] =
                       VerifyDone(r, vreq[r].key, vreq[r].nonce, "ok")]
     ELSE /\ vreq' = [vreq EXCEPT ![r] =
                       VerifyDone(r, vreq[r].key, vreq[r].nonce, "AuthFailed")]
          /\ UNCHANGED nonceStore
  /\ UNCHANGED <<nonceNow, timers, issued>>
  /\ UNCHANGED <<govVars, postVars, coreVars, rateVars>>

NextNonce ==
  \/ NonceTick
  \/ \E w \in WalletInputs : IssueNonce(w)
  \/ \E t \in timers : TimerFire(t)
  \/ \E r \in VerifyReqs, w \in WalletInputs, nonce \in NonceIds, signed \in BOOLEAN :
        VerifyCheck(r, w, nonce, signed)
  \/ \E r \in VerifyReqs, answered \in BOOLEAN : VerifyAuth(r, answered)

InitNonce == GovInit /\ PostsInit /\ CoreInit /\ EdgeInit

SpecNonce == InitNonce /\ [][NextNonce]_vars

\* ================================================================ claims =
Pids == 1..Len(proposals)
Terminal(status) == status \in {"PASSED", "FAILED"}
VoteRows(pid) == SelectSeq(votes, LAMBDA v : v.proposalId = pid)
YesRows(pid) == SelectSeq(votes, LAMBDA v : v.proposalId = pid /\ v.vote)
NoRows(pid) == SelectSeq(votes, LAMBDA v : v.proposalId = pid /\ ~v.vote)
Tally(p) == <<p.yesVotes, p.noVotes, p.totalVotes>>

\* C1: at most one Vote row exists for every (proposal, voter) pair, and of
\* the castVote calls of one voter on one proposal at most one succeeds.
C1_OneVotePerPair ==
  /\ \A pid \in Pids, u \in Users : Len(VotesOf(pid, u)) <= 1
  /\ \A r1, r2 \in Reqs :
       ( /\ r1 # r2
         /\ req[r1].op = "vote" /\ req[r2].op = "vote"
         /\ req[r1].pid = req[r2].pid /\ req[r1].user = req[r2].user
         /\ req[r1].result = "ok" )
       => req[r2].result # "ok"

\* C2: a proposal whose persisted status is PASSED or FAILED is never written
\* with a different status.
C2_TerminalStatusStays ==
  [][\A pid \in Pids :
       Terminal(proposals[pid].status)
         => proposals'[pid].status = proposals[pid].status]_vars

\* C3: once a proposal's persisted status is PASSED or FAILED no Vote row is
\* inserted for it and its yes/no/total tallies do not change.
C3_TerminalFreezesTally ==
  [][\A pid \in Pids :
       Terminal(proposals[pid].status)
         => /\ Tally(proposals'[pid]) = Tally(proposals[pid])
            /\ VoteRows(pid)' = VoteRows(pid)]_vars

\* C4: yesVotes + noVotes = totalVotes for every proposal in every state.
C4_TallySum ==
  \A pid \in Pids :
    proposals[pid].yesVotes + proposals[pid].noVotes = proposals[pid].totalVotes

\* a proposal whose tally counts a yes vote and a no vote
C4_Witness ==
  \E pid \in Pids : proposals[pid].yesVotes >= 1 /\ proposals[pid].noVotes >= 1

\* C5: in every state each proposal's tallies equal the weights of the Vote
\* rows recorded for it (every weight is 1): total over all rows, yes over the
\* yes rows, no over the no rows.
C5_LedgerMatchesTally ==
  \A pid \in Pids :
    /\ proposals[pid].totalVotes = Len(VoteRows(pid))
    /\ proposals[pid].yesVotes = Len(YesRows(pid))
    /\ proposals[pid].noVotes = Len(NoRows(pid))

\* the castVote calls that have applied their tally update to proposal pid
Counted(pid) ==
  {r \in Reqs : req[r].op = "vote" /\ req[r].pid = pid /\ req[r].upd.found}
Admitted == {"voteCreate", "voteUpdate", "voteResolve", "voteStatus"}

\* C6: castVote calls of distinct voters that run concurrently on one proposal
\* all succeed and none of their tally updates is lost: a call that passed the
\* admission checks ends with success unless the store fails it, and the
\* proposal's totalVotes is the number of calls that applied their update
\* (each of weight 1).
C6_NoLostUpdate ==
  /\ [](\A pid \in Pids : proposals[pid].totalVotes = Cardinality(Counted(pid)))
  /\ [][\A r \in Reqs :
          (req[r].pc \in Admitted /\ req'[r].pc = "done")
            => req'[r].result \in {"ok", "StoreError"}]_vars

\* two voters have both applied their update before either call has returned
C6_Witness ==
  \E r1, r2 \in Reqs :
    /\ req[r1].user # req[r2].user
    /\ req[r1].pid = req[r2].pid
    /\ req[r1].pc = "voteResolve" /\ req[r2].pc = "voteResolve"
    /\ req[r1].pid \in Pids
    /\ proposals[req[r1].pid].totalVotes = 2

\* the tally a castVote left meets quorum (against the community's member
\* count) and threshold
MeetsBoth(upd) ==
  /\ QuorumMet(upd.totalVotes, memberCount, upd.requiredQuorum)
  /\ ThresholdMet(upd.yesVotes, upd.totalVotes, upd.passingThreshold)

\* C7: a successful castVote whose tally meets quorum and threshold has written
\* status PASSED itself before it returned, whether or not the window is over.
C7_EarlyExit ==
  /\ [](\A r \in Reqs :
          ( /\ req[r].op = "vote" /\ req[r].pc = "done" /\ req[r].result = "ok"
            /\ MeetsBoth(req[r].upd) )
          => req[r].write = "PASSED")
  /\ [][\A r \in Reqs :
          (req[r].pc = "voteStatus" /\ req'[r].pc = "done" /\ req'[r].result = "ok")
            => proposals'[req[r].pid].status = req[r].write]_vars

\* the second of two yes votes passed the proposal inside the window; the
\* first, short of the quorum, did not
C7_Witness ==
  \E r1, r2 \in Reqs :
    /\ req[r1].op = "vote" /\ req[r1].pc = "done" /\ req[r1].result = "ok"
    /\ req[r2].op = "vote" /\ req[r2].pc = "done" /\ req[r2].result = "ok"
    /\ req[r1].pid = req[r2].pid
    /\ req[r1].upd.totalVotes = 1 /\ req[r1].write = "NONE"
    /\ req[r2].upd.totalVotes = 2 /\ req[r2].write = "PASSED"
    /\ MeetsBoth(req[r2].upd)
    /\ proposals[req[r2].pid].status = "PASSED"
    /\ now <= proposals[req[r2].pid].votingEndsAt

\* C8: a read that finds a proposal ACTIVE, past its votingEndsAt and below
\* its quorum returns it as FAILED and leaves FAILED persisted.
C8_LazySweepOnRead ==
  [][\A r \in Reqs :
       (req[r].pc = "readFormat" /\ req'[r].pc = "done")
       => \A pid \in 1..Len(req[r].list) :
            LET row == req[r].list[pid].row IN
            ( /\ row.status = "ACTIVE"
              /\ WindowClosed(now, row.votingEndsAt)
              /\ ~QuorumMet(row.totalVotes, memberCount, row.requiredQuorum) )
            => /\ req'[r].list[pid].status = "FAILED"
               /\ proposals'[pid].status = "FAILED"]_vars

\* C9: a proposal past its votingEndsAt whose tally meets the quorum and
\* misses the threshold is FAILED once it has been read after expiry and no
\* request is in flight.
C9_ThresholdMissedFails ==
  \A pid \in Pids :
    LET p == proposals[pid] IN
    ( /\ WindowClosed(now, p.votingEndsAt)
      /\ QuorumMet(p.totalVotes, memberCount, p.requiredQuorum)
      /\ ~ThresholdMet(p.yesVotes, p.totalVotes, p.passingThreshold)
      /\ \A r \in Reqs : req[r].pc \in {"idle", "done"}
      /\ \E r \in Reqs :
           /\ req[r].op = "read" /\ req[r].result = "ok"
           /\ pid \in 1..Len(req[r].list)
           /\ WindowClosed(req[r].t0, p.votingEndsAt) )
    => p.status = "FAILED"

\* C10: a castVote issued after votingEndsAt that finds the proposal ACTIVE is
\* rejected with VotingWindowClosed; the rejection inserts no vote and changes
\* no proposal.
C10_WindowClosedRejected ==
  [][\A r \in Reqs :
       ( /\ req[r].pc = "voteCheck"
         /\ req[r].row.found /\ req[r].row.status = "ACTIVE"
         /\ req[r].t0 > req[r].row.votingEndsAt
         /\ req'[r] # req[r] )
       => /\ req'[r].pc = "done" /\ req'[r].result = "VotingWindowClosed"
          /\ votes' = votes /\ proposals' = proposals]_vars

\* such a call has been rejected while the stored status is still ACTIVE
C10_Witness ==
  \E r \in Reqs :
    /\ req[r].op = "vote" /\ req[r].result = "VotingWindowClosed"
    /\ req[r].pid \in Pids
    /\ req[r].t0 > proposals[req[r].pid].votingEndsAt
    /\ proposals[req[r].pid].status = "ACTIVE"
    /\ VoteRows(req[r].pid) = <<>>

\* the errors castVote answers with before it has written anything
VoteErrors ==
  {"ValidationError", "ProposalNotFound", "ProposalNotActive",
   "VotingWindowClosed", "PermissionDenied", "DuplicateVote"}

\* C11: a castVote that ends with ValidationError, ProposalNotFound,
\* ProposalNotActive, VotingWindowClosed, PermissionDenied or DuplicateVote
\* has that error as its answer, fails at a step that writes nothing, and has
\* made no step before it that inserted a vote or changed a proposal.
C11_FailedVoteWritesNothing ==
  [][\A r \in Reqs :
       /\ ( /\ req[r].pc # "done" /\ req'[r].pc = "done"
            /\ req'[r].op = "vote" /\ req'[r].result \in VoteErrors )
          => /\ req[r].pc \in {"idle", "voteCheck", "voteMember"}
             /\ ~req'[r].upd.found
             /\ votes' = votes /\ proposals' = proposals
       /\ ( /\ req'[r] # req[r]
            /\ req'[r].op = "vote"
            /\ req'[r].pc \in {"voteCheck", "voteMember", "voteCreate"} )
          => (votes' = votes /\ proposals' = proposals)]_vars

\* a second vote of a voter was refused as a duplicate and a malformed one as
\* invalid, next to the one recorded vote
C11_Witness ==
  \E r1, r2 \in Reqs :
    /\ req[r1].op = "vote" /\ req[r1].result = "ok"
    /\ req[r2].op = "vote" /\ req[r2].result = "DuplicateVote"
    /\ req[r2].pid = req[r1].pid /\ req[r2].user = req[r1].user
    /\ req[r1].pid \in Pids
    /\ Len(VoteRows(req[r1].pid)) = 1
    /\ proposals[req[r1].pid].totalVotes = 1

\* u has a communityMember row and a role whose permissions include VOTE
EligibleVoter(u) ==
  /\ u \in members
  /\ \E mr \in memberRoles : mr[1] = u /\ "VOTE" \in Permissions(mr[2])

\* C12: every Vote row was cast by a member holding a role with VOTE, and a
\* castVote that has passed the proposal checks for a user who is not such a
\* member ends with PermissionDenied (or with the store's error) and writes
\* nothing.
C12_OnlyVotersVote ==
  /\ [](\A i \in 1..Len(votes) : EligibleVoter(votes[i].userId))
  /\ [][\A r \in Reqs :
          ( /\ req[r].pc = "voteMember" /\ req'[r] # req[r]
            /\ ~EligibleVoter(req[r].user) )
          => /\ req'[r].pc = "done"
             /\ req'[r].result \in {"PermissionDenied", "StoreError"}
             /\ votes' = votes /\ proposals' = proposals]_vars

\* the community's creator (Admin role, no VOTE) and a user who never joined
\* have both been refused on an open proposal
C12_Witness ==
  \E r1, r2 \in Reqs :
    /\ req[r1].op = "vote" /\ req[r1].result = "PermissionDenied"
    /\ req[r1].user = Owner
    /\ req[r2].op = "vote" /\ req[r2].result = "PermissionDenied"
    /\ req[r2].user \notin members
    /\ votes = <<>>

\* C13: the proposal a successful createProposal inserts is ACTIVE with all
\* three tallies 0, starts at the time the handler read, ends
\* votingDuration hours later (so after it starts), and carries the quorum
\* and threshold sent, 50 for each one omitted.
C13_CreatedProposal ==
  [][\A r \in Reqs :
       ( /\ req[r].pc = "createInsert"
         /\ req'[r].pc = "done" /\ req'[r].result = "ok" )
       => /\ Len(proposals') = Len(proposals) + 1
          /\ req'[r].pid = Len(proposals')
          /\ LET p == proposals'[Len(proposals')] IN
             /\ p.status = "ACTIVE"
             /\ Tally(p) = <<0, 0, 0>>
             /\ p.votingStartsAt = req[r].t0
             /\ p.votingStartsAt <= now
             /\ p.votingEndsAt = p.votingStartsAt + req[r].dur * HourMs
             /\ p.votingEndsAt > p.votingStartsAt
             /\ p.requiredQuorum =
                  (IF req[r].quorumIn = Omitted THEN 50 ELSE req[r].quorumIn)
             /\ p.passingThreshold =
                  (IF req[r].thresholdIn = Omitted THEN 50 ELSE req[r].thresholdIn)]_vars

\* a proposal created an hour into the run with quorum and threshold omitted
C13_Witness ==
  \E r \in Reqs :
    /\ req[r].op = "create" /\ req[r].result = "ok"
    /\ req[r].pid \in Pids
    /\ proposals[req[r].pid].votingStartsAt = HourMs
    /\ proposals[req[r].pid].votingEndsAt = 2 * HourMs
    /\ proposals[req[r].pid].requiredQuorum = 50
    /\ proposals[req[r].pid].passingThreshold = 50
    /\ proposals[req[r].pid].status = "ACTIVE"
    /\ proposals[req[r].pid].totalVotes = 0

\* the author is a member with a role granting CREATE_PROPOSALS
EligibleAuthor(u) ==
  /\ u \in members
  /\ \E mr \in memberRoles : mr[1] = u /\ "CREATE_PROPOSALS" \in Permissions(mr[2])

\* the body of a createProposal request is outside the documented ranges
OutOfRange(q) ==
  \/ q.dur < 1 \/ q.dur > 168
  \/ q.quorumIn # Omitted /\ (q.quorumIn < 1 \/ q.quorumIn > 100)
  \/ q.thresholdIn # Omitted /\ (q.thresholdIn < 1 \/ q.thresholdIn > 100)

ReadOf(pid, u) ==
  FormatProposal([row |-> RowOf(pid), votes |-> VotesOf(pid, u)], now)

\* C15: a read changes nothing that is persisted, and what a read answers
\* for a proposal that is already PASSED or FAILED (its status and its three
\* tallies) is the same whenever the read is made.
C15_IdempotentRead ==
  [][/\ \A r \in Reqs :
          (req'[r] # req[r] /\ req'[r].op = "read")
            => UNCHANGED <<memberCount, members, memberRoles, proposals, votes>>
     /\ \A pid \in Pids, u \in Users :
          Terminal(proposals[pid].status)
            => /\ ReadOf(pid, u)'.status = ReadOf(pid, u).status
               /\ Tally(ReadOf(pid, u)') = Tally(ReadOf(pid, u))]_vars

\* the castVote calls that have returned success
VotedOk == {r \in Reqs : req[r].op = "vote" /\ req[r].pc = "done" /\ req[r].result = "ok"}

\* C16: when a castVote returns success its response carries the tally its
\* update produced and a status, and that status is the one persisted for
\* the proposal at that moment (PASSED when the vote triggered early exit).
C16_ResponseCarriesStatus ==
  [][\A r \in Reqs :
       (req[r].pc # "done" /\ r \in VotedOk')
       => LET q == req'[r]
              p == proposals'[q.pid] IN
          /\ Tally(VoteResponse(q)) = Tally(q.upd)
          /\ "status" \in DOMAIN VoteResponse(q)
          /\ VoteResponse(q).status = p.status]_vars

\* C17: a castVote that returned success has emitted an event carrying the
\* tally of its update, and one that wrote PASSED or FAILED has also emitted
\* an event carrying the proposal id and that status.
C17_EventsEmitted ==
  \A r \in VotedOk :
    /\ \E e \in VoteEvents(req[r]) :
         /\ e.proposalId = req[r].pid
         /\ Tally(e) = Tally(req[r].upd)
    /\ Terminal(req[r].write)
         => \E e \in VoteEvents(req[r]) :
              /\ e.proposalId = req[r].pid
              /\ "status" \in DOMAIN e
              /\ e.status = req[r].write

\* the place of a status in PUBLISHED -> ANCHORED -> MINTED
PostRank(status) ==
  IF status = "PUBLISHED" THEN 0 ELSE IF status = "ANCHORED" THEN 1 ELSE 2

\* C18: no step moves a post's status backwards along
\* PUBLISHED -> ANCHORED -> MINTED, and a post that is MINTED has been
\* anchored.
C18_StatusOnlyForward ==
  /\ [](\A p \in PostRows : posts[p].status = "MINTED" => posts[p].isAnchored)
  /\ [][\A p \in PostRows :
          PostRank(posts'[p].status) >= PostRank(posts[p].status)]_vars

\* the anchor requests of user u that returned success for an anchor made in
\* month m
AnchorsCompleted(u, m) ==
  {r \in PostReqs : /\ preq[r].op = "anchor" /\ preq[r].pc = "done"
                    /\ preq[r].result = "ok"
                    /\ preq[r].user = u /\ preq[r].anchoredAt = m}

\* C19: in no month does a user complete more successful anchors than the
\* free-anchor limit.
C19_MonthlyAnchorLimit ==
  \A u \in PostUsers, m \in 0..MaxMonth :
    Cardinality(AnchorsCompleted(u, m)) <= maxFreeAnchors

\* C20: mintPostAsNFT succeeds only for the post's recorded author on a post
\* that is not yet an NFT; a success sets isNFT, makes tokenId the post id
\* and gives the token to the author; a call on a post that is already an
\* NFT or was never created reverts; a revert leaves the storage as it was;
\* and isNFT, once set, stays set (so a post is minted at most once).
C20_MintOnceByAuthor ==
  [][/\ \A i \in CorePostIds : corePosts[i].isNFT => corePosts'[i] = corePosts[i]
     /\ (tx'.n # tx.n /\ tx'.fn = "mintPostAsNFT")
        => LET i == tx'.postId
               a == tx'.sender IN
           /\ (corePosts[i].isNFT \/ corePosts[i].author = 0) => ~tx'.ok
           /\ tx'.ok
                => /\ corePosts[i].author = a
                   /\ ~corePosts[i].isNFT
                   /\ corePosts'[i] = [author |-> a, isNFT |-> TRUE, tokenId |-> i]
                   /\ tokenOwner'[i] = a
                   /\ \A j \in CorePostIds \ {i} :
                        corePosts'[j] = corePosts[j] /\ tokenOwner'[j] = tokenOwner[j]
           /\ ~tx'.ok
                => (corePosts' = corePosts /\ tokenOwner' = tokenOwner
                    /\ postIds' = postIds)]_vars

\* the author minted post 1 and their second mintPostAsNFT on it has just
\* reverted
C20_Witness ==
  /\ tx.fn = "mintPostAsNFT" /\ ~tx.ok /\ tx.postId = 1
  /\ corePosts[1].isNFT /\ corePosts[1].tokenId = 1
  /\ tx.sender = corePosts[1].author
  /\ tokenOwner[1] = corePosts[1].author

\* the resolution policy as specified: PASSED when quorum and threshold are
\* met, FAILED when the window is over and one of them is not, else ACTIVE
SpecResolve(row, size, t) ==
  IF /\ row.totalVotes * 100 >= row.requiredQuorum * size
     /\ row.yesVotes * 100 >= row.passingThreshold * row.totalVotes
  THEN "PASSED"
  ELSE IF t > row.votingEndsAt THEN "FAILED" ELSE "ACTIVE"

\* C21: when a castVote evaluates the resolution after its tally update, the
\* status it decides (the one it goes on to write, ACTIVE when it writes
\* nothing) is the specified resolve function of the updated tally, the
\* proposal's quorum, threshold and votingEndsAt, the current time and the
\* community's memberCount.
C21_StatusIsResolve ==
  [][\A r \in Reqs :
       (req[r].pc = "voteResolve" /\ req'[r] # req[r])
       => LET decided == IF req'[r].pc = "voteStatus" THEN req'[r].write
                         ELSE "ACTIVE" IN
          decided = SpecResolve(req[r].upd, memberCount, now)]_vars

\* C22: the community size a castVote's resolution evaluates the quorum
\* against is memberCount as it is when the resolution runs: the call decides
\* what the route's policy gives for the updated tally and the current
\* memberCount.
C22_QuorumOnCurrentSize ==
  [][\A r \in Reqs :
       (req[r].pc = "voteResolve" /\ req'[r] # req[r])
       => LET w == Resolution(req[r].upd, memberCount, now) IN
          IF w = "NONE" THEN req'[r].pc = "done"
          ELSE req'[r].pc = "voteStatus" /\ req'[r].write = w]_vars

\* C23: a proposal persisted as PASSED has a persisted tally whose yes share
\* meets its passingThreshold, and at each write of PASSED the persisted
\* total meets the requiredQuorum of the current memberCount.
C23_PassedMeetsThreshold ==
  /\ [](\A pid \in Pids :
          proposals[pid].status = "PASSED"
            => proposals[pid].yesVotes * 100
                 >= proposals[pid].passingThreshold * proposals[pid].totalVotes)
  /\ [][\A r \in Reqs :
          ( /\ req[r].pc = "voteStatus" /\ req'[r].pc = "done"
            /\ req'[r].result = "ok" /\ req[r].write = "PASSED" )
          => proposals'[req[r].pid].totalVotes * 100
               >= proposals'[req[r].pid].requiredQuorum * memberCount]_vars

\* C24: a castVote that ended in failure has left no tally update behind, and
\* once a castVote that evaluated its tally as meeting quorum and threshold
\* has ended, the proposal is not ACTIVE.
C24_UpdateAndStatusAtomic ==
  \A r \in Reqs :
    (req[r].op = "vote" /\ req[r].pc = "done" /\ req[r].pid \in Pids)
    => /\ req[r].result # "ok"
            => proposals[req[r].pid].totalVotes
                 = Cardinality({q \in Counted(req[r].pid) :
                                  ~(req[q].pc = "done" /\ req[q].result # "ok")})
       /\ req[r].write = "PASSED" => proposals[req[r].pid].status # "ACTIVE"

\* C25: FAILED is written only at a time strictly after the proposal's
\* votingEndsAt, so no proposal is FAILED while its window is open.
C25_FailedOnlyAfterWindow ==
  /\ [](\A pid \in Pids :
          proposals[pid].status = "FAILED" => now > proposals[pid].votingEndsAt)
  /\ [][\A pid \in Pids :
          (proposals'[pid].status = "FAILED" /\ proposals[pid].status # "FAILED")
            => now > proposals[pid].votingEndsAt]_vars

\* a no vote admitted inside the window was resolved after it and failed the
\* proposal
C25_Witness ==
  \E r \in VotedOk :
    /\ req[r].write = "FAILED" /\ ~req[r].vote
    /\ req[r].t0 <= proposals[req[r].pid].votingEndsAt
    /\ proposals[req[r].pid].status = "FAILED"
    /\ proposals[req[r].pid].noVotes >= 1

\* C26: no step decreases a proposal's yesVotes, noVotes or totalVotes, and
\* no step removes a proposal.
C26_TalliesNeverDecrease ==
  [][/\ Len(proposals') >= Len(proposals)
     /\ \A pid \in Pids :
          /\ proposals'[pid].yesVotes >= proposals[pid].yesVotes
          /\ proposals'[pid].noVotes >= proposals[pid].noVotes
          /\ proposals'[pid].totalVotes >= proposals[pid].totalVotes]_vars

\* a no vote and then a yes vote have both been counted
C26_Witness ==
  /\ Len(votes) = 2 /\ ~votes[1].vote /\ votes[2].vote
  /\ \E pid \in Pids : Tally(proposals[pid]) = <<1, 1, 2>>

\* C27: no step removes a Vote row or changes the proposal, voter, choice or
\* weight of an existing one (rows are only appended), and no step removes a
\* proposal.
C27_LedgerAppendOnly ==
  [][/\ Len(votes') >= Len(votes)
     /\ \A i \in 1..Len(votes) : votes'[i] = votes[i]
     /\ Len(proposals') >= Len(proposals)]_vars

\* a second row was appended behind a yes vote of weight 1, which is still
\* there after its voter sent a no vote as well
C27_Witness ==
  /\ Len(votes) = 2
  /\ votes[1].vote /\ votes[1].weight = 1
  /\ votes[2].userId = votes[1].userId /\ votes[2].proposalId = votes[1].proposalId
  /\ ~votes[2].vote

\* what createProposal fixes for a proposal
Config(p) ==
  <<p.votingStartsAt, p.votingEndsAt, p.requiredQuorum, p.passingThreshold>>

C29_OtherProposalsUntouched ==
  [][\A r \in Reqs :
       (req'[r] # req[r] /\ req'[r].op = "vote")
       => /\ memberCount' = memberCount
          /\ \A pid \in Pids \ {req'[r].pid} :
               /\ proposals'[pid] = proposals[pid]
               /\ VoteRows(pid)' = VoteRows(pid)]_vars

\* a yes vote passed proposal 1 and a no vote on proposal 2 left it short of
\* its quorum; each proposal counts exactly its own vote
C29_Witness ==
  /\ Len(proposals) = 2
  /\ \E r1, r2 \in Reqs :
       /\ req[r1].op = "vote" /\ req[r1].pid = 1 /\ req[r1].result = "ok"
       /\ req[r2].op = "vote" /\ req[r2].pid = 2 /\ req[r2].result = "ok"
  /\ proposals[1].status = "PASSED" /\ Tally(proposals[1]) = <<1, 0, 1>>
  /\ proposals[2].status = "ACTIVE" /\ Tally(proposals[2]) = <<0, 1, 1>>
  /\ Len(VoteRows(1)) = 1 /\ Len(VoteRows(2)) = 1

\* C30: when a castVote evaluates its resolution, the totalVotes of the row
\* its update returned and the memberCount it divides by are both positive
\* (and the persisted memberCount is positive in every state), so neither
\* the participation nor the yes percentage divides by zero.
C30_NoDivisionByZero ==
  /\ memberCount > 0
  /\ \A r \in Reqs :
       req[r].pc = "voteResolve"
         => (req[r].totalMembers > 0 /\ req[r].upd.totalVotes > 0)

\* a resolution about to compute the yes percentage: one vote of two members
\* meets the quorum
C30_Witness ==
  \E r \in Reqs :
    /\ req[r].pc = "voteResolve"
    /\ req[r].totalMembers = 2 /\ req[r].upd.totalVotes = 1
    /\ QuorumMet(req[r].upd.totalVotes, req[r].totalMembers, req[r].upd.requiredQuorum)

\* C31: under fair scheduling every castVote, createProposal and proposal
\* read that has started eventually ends, with a success or an error result.
C31_EveryCallCompletes ==
  \A r \in Reqs :
    (req[r].op \in {"vote", "create", "read"} /\ req[r].pc # "done")
      ~> (req[r].pc = "done" /\ req[r].result # "none")

\* two castVote calls that were at their tally update together have both
\* returned
C31_Witness ==
  /\ \A r \in Reqs : req[r].op = "vote" /\ req[r].pc = "done" /\ req[r].result = "ok"
  /\ \E pid \in Pids : proposals[pid].totalVotes = 2 /\ Len(VoteRows(pid)) = 2

\* C32: for every wallet address, the admissions whose times lie within one
\* hour of each other number at most maxOpsPerHour; a request that finds
\* that many admissions less than one hour old is rejected, and a rejected
\* request adds no admission time to the wallet's list.
RecentlyAdmitted(k, t) ==
  {i \in DOMAIN admitted[k] : t - admitted[k][i] < HourMs}
WithinWindow(log, from) ==
  {i \in DOMAIN log : log[i] >= from /\ log[i] < from + HourMs}
HandledFor(k) ==
  /\ opsNow' = opsNow
  /\ lastOp' # lastOp \/ userOps' # userOps
  /\ lastOp'.wallet # NoWallet
  /\ toLowerCase(lastOp'.wallet) = k
C32_Step ==
  /\ \A k \in WalletKeys : \A i \in DOMAIN admitted'[k] :
       Cardinality(WithinWindow(admitted'[k], admitted'[k][i])) <= maxOpsPerHour
  /\ \A k \in WalletKeys :
       HandledFor(k) =>
         IF Cardinality(RecentlyAdmitted(k, opsNow)) >= maxOpsPerHour
         THEN /\ lastOp'.outcome = "rejected"
              /\ admitted'[k] = admitted[k]
              /\ Len(userOps'[k]) <= Len(userOps[k])
              /\ \A i \in DOMAIN userOps'[k] : \E j \in DOMAIN userOps[k] :
                    userOps'[k][i] = userOps[k][j]
         ELSE /\ lastOp'.outcome = "next"
              /\ admitted'[k] = Append(admitted[k], opsNow)
C32_RateLimit == [][C32_Step]_vars
\* a wallet was admitted maxOpsPerHour times in one instant, rejected within
\* the hour under its other spelling, and admitted again once the hour was over
C32_Witness ==
  /\ \E k \in WalletKeys :
       /\ Len(admitted[k]) = maxOpsPerHour + 1
       /\ admitted[k][maxOpsPerHour] = 0
       /\ admitted[k][maxOpsPerHour + 1] = HourMs
       /\ Len(userOps[k]) = 1
  /\ opsNow = HourMs + OpsStepMs
  /\ lastOp.outcome = "rejected"
  /\ lastOp.wallet[2]

\* C33: for each issued nonce at most one /wallet/verify request succeeds,
\* also when two requests with the same address and nonce overlap.
Verified(n) ==
  {r \in VerifyReqs : vreq[r].pc = "done" /\ vreq[r].result = "ok" /\ vreq[r].nonce = n}
C33_NonceAuthenticatesOnce ==
  \A n \in NonceIds : Cardinality(Verified(n)) <= 1

\* C34: a nonce leaves the store, other than through a /wallet/verify
\* request, no earlier than 5 minutes after its own issuance; in particular
\* the timer of an earlier nonce of the same wallet does not remove it.
C34_Step ==
  \A k \in WalletKeys :
    (nonceStore[k] # NoNonce /\ nonceStore'[k] = NoNonce /\ vreq' = vreq)
      => nonceNow >= nonceStore[k].expires
C34_NonceLastsFiveMinutes == [][C34_Step]_vars

\* C35: memberCount is never below 1, and whenever no join request is in
\* flight it equals the number of communityMember rows of the community.
JoinsInFlight == {r \in Reqs : req[r].op = "join" /\ req[r].pc # "done"}
C35_CountMatchesRows ==
  /\ memberCount >= 1
  /\ JoinsInFlight = {} => memberCount = Cardinality(members)

\* C36: for every post at most one anchor request runs to success, that is,
\* creates a PostAnchor record for it and increments freeAnchorsUsed.
AnchoredBy(p) ==
  {r \in PostReqs : /\ preq[r].op = "anchor" /\ preq[r].pid = p
                    /\ preq[r].pc = "done" /\ preq[r].result = "ok"}
C36_AnchoredOnce ==
  \A p \in PostRows : Cardinality(AnchoredBy(p)) <= 1

\* C37: in every proposal list answered, for each proposal, hasVoted is true
\* exactly when the query found a vote of the caller, userVote is then the
\* recorded choice ("true" for yes, "false" for no), and canVote is true only
\* if the proposal is ACTIVE, its window has not ended and the caller has not
\* voted.
C37_Step ==
  \A r \in Reqs :
    (req[r].pc = "readFormat" /\ req'[r].pc = "done" /\ req'[r].result = "ok")
      => \A i \in DOMAIN req[r].list :
           LET found == req[r].list[i]
               out == req'[r].list[i]
           IN  /\ out.hasVoted <=> Len(found.votes) > 0
               /\ out.hasVoted =>
                    out.userVote = IF found.votes[1].vote THEN "true" ELSE "false"
               /\ out.canVote => /\ found.row.status = "ACTIVE"
                                 /\ found.row.votingEndsAt > now
                                 /\ Len(found.votes) = 0
C37_ListFlags == [][C37_Step]_vars
====
